---- MODULE Spec2Model ----
(***************************************************************************)
(* Model of mergneh's MPD text source (src/src/mpd.rs): the placeholder    *)
(* template language (FromStr / Display of MpdFormatter), the icon sets,   *)
(* the value resolver (Placeholder::get), the renderer                     *)
(* (MpdFormatter::format) and the differential refresh (MpdSource::get).   *)
(*                                                                         *)
(* A Rust String / &str is a sequence of one-character strings.  A Rust    *)
(* Option is the record None or Some(v).  Positions are 1-based, so a      *)
(* Rust index i is i+1 here and `find` returning None is 0.                *)
(***************************************************************************)
EXTENDS Integers, Sequences, FiniteSets, TLC

\* ------------------------------------------------------------------ bounds
\* Number of free characters of a drawn template string (one placeholder
\* name may be inserted in addition).
MaxLen == 4
\* Number of entries of a program built directly (not parsed).
MaxEntries == 2
\* Length of a literal entry of a program built directly.
MaxLitLen == 1
\* Largest pad count drawn for an icon placeholder.
MaxPad == 2

\* ----------------------------------------------------------------- options
None == [some |-> FALSE, v |-> <<>>]
Some(x) == [some |-> TRUE, v |-> x]

\* ----------------------------------------------------------------- strings
S_album == <<"a","l","b","u","m">>
S_albumArtist == <<"a","l","b","u","m","A","r","t","i","s","t">>
S_artist == <<"a","r","t","i","s","t">>
S_consumeIcon == <<"c","o","n","s","u","m","e","I","c","o","n">>
S_date == <<"d","a","t","e">>
S_elapsedTime == <<"e","l","a","p","s","e","d","T","i","m","e">>
S_filename == <<"f","i","l","e","n","a","m","e">>
S_queueLength == <<"q","u","e","u","e","L","e","n","g","t","h">>
S_randomIcon == <<"r","a","n","d","o","m","I","c","o","n">>
S_repeatIcon == <<"r","e","p","e","a","t","I","c","o","n">>
S_singleIcon == <<"s","i","n","g","l","e","I","c","o","n">>
S_songPosition == <<"s","o","n","g","P","o","s","i","t","i","o","n">>
S_stateIcon == <<"s","t","a","t","e","I","c","o","n">>
S_title == <<"t","i","t","l","e">>
S_totalTime == <<"t","o","t","a","l","T","i","m","e">>
S_volume == <<"v","o","l","u","m","e">>

LB == <<"{">>
RB == <<"}">>
Braces == {"{", "}"}

\* s[from..] of Rust, with `from` 1-based.
Tail_from(s, from) == SubSeq(s, from, Len(s))

\* str::find(['{', '}']): position of the first brace, 0 when there is none.
Find(s) ==
    IF \E i \in 1..Len(s) : s[i] \in Braces
    THEN CHOOSE i \in 1..Len(s) :
            s[i] \in Braces /\ \A j \in 1..(i-1) : s[j] \notin Braces
    ELSE 0

\* str::split_once(':'): position of the first ':', 0 when there is none.
ColonAt(s) ==
    IF \E i \in 1..Len(s) : s[i] = ":"
    THEN CHOOSE i \in 1..Len(s) : s[i] = ":" /\ \A j \in 1..(i-1) : s[j] /= ":"
    ELSE 0

\* ------------------------------------------------------------- placeholders
\* enum Placeholder.  Every variant is a record of the same shape; the
\* fields a variant does not carry hold a fixed value.
Ph(kind, s, fmt, pad) == [kind |-> kind, s |-> s, fmt |-> fmt, pad |-> pad]
PString(s) == Ph("String", s, <<>>, 0)
PBare(kind) == Ph(kind, <<>>, <<>>, 0)
PTime(kind, fmt) == Ph(kind, <<>>, fmt, 0)
PIcon(kind, pad) == Ph(kind, <<>>, <<>>, pad)

TimeKinds == {"ElapsedTime", "TotalTime"}
ToggleKinds == {"ConsumeIcon", "RandomIcon", "RepeatIcon", "SingleIcon"}
IconKinds == ToggleKinds \cup {"StateIcon"}
PlainKinds == {"Artist", "AlbumArtist", "Album", "Title", "Filename", "Date",
               "Volume", "SongPosition", "QueueLength"}

\* chrono's StrftimeItems over the specifiers used here: an item is a
\* literal character, a numeric time field (%H %M %S), a date field (%Y)
\* or an error item (any other specifier, or a trailing '%').
Lit(c) == [t |-> "Lit", c |-> c]
Num(c) == [t |-> "Num", c |-> c]
DateItem(c) == [t |-> "Date", c |-> c]
ErrItem == [t |-> "Error", c |-> ""]

RECURSIVE StrftimeItems(_)
StrftimeItems(p) ==
    IF p = <<>> THEN <<>>
    ELSE IF p[1] /= "%" THEN <<Lit(p[1])>> \o StrftimeItems(Tail(p))
    ELSE IF Len(p) = 1 THEN <<ErrItem>>
    ELSE IF p[2] \in {"H", "M", "S"} THEN <<Num(p[2])>> \o StrftimeItems(Tail_from(p, 3))
    ELSE IF p[2] = "Y" THEN <<DateItem(p[2])>> \o StrftimeItems(Tail_from(p, 3))
    ELSE IF p[2] = "%" THEN <<Lit("%")>> \o StrftimeItems(Tail_from(p, 3))
    ELSE <<ErrItem>> \o StrftimeItems(Tail_from(p, 3))

\* StrftimeItems::parse_to_owned: fails when an item is an error item.
PatternOk(items) == \A i \in 1..Len(items) : items[i].t /= "Error"

\* StrftimeItems::new("%M:%S").parse_to_owned().unwrap()
DefaultPattern == <<Num("M"), Lit(":"), Num("S")>>

Digits == <<"0","1","2","3","4","5","6","7","8","9">>
IsDigit(c) == \E d \in 1..10 : Digits[d] = c
DigitVal(c) == (CHOOSE d \in 1..10 : Digits[d] = c) - 1

RECURSIVE DecVal(_, _)
DecVal(s, acc) == IF s = <<>> THEN acc ELSE DecVal(Tail(s), acc * 10 + DigitVal(s[1]))

\* str::parse::<usize>: an optional '+', then at least one digit and only
\* digits (the drawn arguments are far below usize::MAX).
UsizeBody(s) == IF s /= <<>> /\ s[1] = "+" THEN Tail(s) ELSE s
UsizeOk(s) == UsizeBody(s) /= <<>> /\ \A i \in 1..Len(UsizeBody(s)) : IsDigit(UsizeBody(s)[i])
UsizeVal(s) == DecVal(UsizeBody(s), 0)

\* ------------------------------------------------------------------ results
\* Result<MpdFormatter, MpdFormatParseError>: an Err carries no program.
Ok(prog) == [ok |-> TRUE, prog |-> prog, err |-> "", arg |-> <<>>]
Err(e, a) == [ok |-> FALSE, prog |-> <<>>, err |-> e, arg |-> a]
\* Result<Placeholder, MpdFormatParseError> of one placeholder spec.
OkPh(ph) == [ok |-> TRUE, ph |-> ph, err |-> "", arg |-> <<>>]
ErrPh(e, a) == [ok |-> FALSE, ph |-> PString(<<>>), err |-> e, arg |-> a]

\* ------------------------------------------------------ FromStr (the parser)
\* The `match ph_type` of a spec that holds a ':' (ph_type before the first
\* ':', ph_fmt after it).
ArgArm(ph_type, ph_fmt) ==
    CASE ph_type = S_date -> OkPh(PBare("Date"))
      [] ph_type = S_elapsedTime ->
            IF PatternOk(StrftimeItems(ph_fmt))
            THEN OkPh(PTime("ElapsedTime", StrftimeItems(ph_fmt)))
            ELSE ErrPh("DurationParseError", <<>>)
      [] ph_type = S_totalTime ->
            IF PatternOk(StrftimeItems(ph_fmt))
            THEN OkPh(PTime("TotalTime", StrftimeItems(ph_fmt)))
            ELSE ErrPh("DurationParseError", <<>>)
      [] ph_type \in {S_consumeIcon, S_repeatIcon, S_stateIcon, S_singleIcon, S_randomIcon} ->
            IF ~UsizeOk(ph_fmt) THEN ErrPh("PadParseError", <<>>)
            ELSE (CASE ph_type = S_consumeIcon -> OkPh(PIcon("ConsumeIcon", UsizeVal(ph_fmt)))
                    [] ph_type = S_repeatIcon -> OkPh(PIcon("RepeatIcon", UsizeVal(ph_fmt)))
                    [] ph_type = S_stateIcon -> OkPh(PIcon("StateIcon", UsizeVal(ph_fmt)))
                    [] ph_type = S_singleIcon -> OkPh(PIcon("SingleIcon", UsizeVal(ph_fmt)))
                    [] ph_type = S_randomIcon -> OkPh(PIcon("RandomIcon", UsizeVal(ph_fmt))))
      [] OTHER -> ErrPh("RedundantFormat", ph_type)

\* The `match ph_spec` of a spec that holds no ':'.
BareArm(ph_spec) ==
    CASE ph_spec = S_album -> OkPh(PBare("Album"))
      [] ph_spec = S_albumArtist -> OkPh(PBare("AlbumArtist"))
      [] ph_spec = S_artist -> OkPh(PBare("Artist"))
      [] ph_spec = S_consumeIcon -> OkPh(PIcon("ConsumeIcon", 0))
      [] ph_spec = S_date -> OkPh(PBare("Date"))
      [] ph_spec = S_elapsedTime -> OkPh(PTime("ElapsedTime", DefaultPattern))
      [] ph_spec = S_filename -> OkPh(PBare("Filename"))
      [] ph_spec = S_queueLength -> OkPh(PBare("QueueLength"))
      [] ph_spec = S_randomIcon -> OkPh(PIcon("RandomIcon", 0))
      [] ph_spec = S_repeatIcon -> OkPh(PIcon("RepeatIcon", 0))
      [] ph_spec = S_singleIcon -> OkPh(PIcon("SingleIcon", 0))
      [] ph_spec = S_songPosition -> OkPh(PBare("SongPosition"))
      [] ph_spec = S_stateIcon -> OkPh(PIcon("StateIcon", 0))
      [] ph_spec = S_title -> OkPh(PBare("Title"))
      [] ph_spec = S_totalTime -> OkPh(PTime("TotalTime", DefaultPattern))
      [] ph_spec = S_volume -> OkPh(PBare("Volume"))
      [] OTHER -> ErrPh("UnknownPlaceholder", ph_spec)

\* `if let Some((ph_type, ph_fmt)) = ph_spec.split_once(':') {..} else {..}`
PlaceholderOf(ph_spec) ==
    IF ColonAt(ph_spec) /= 0
    THEN ArgArm(SubSeq(ph_spec, 1, ColonAt(ph_spec) - 1),
                Tail_from(ph_spec, ColonAt(ph_spec) + 1))
    ELSE BareArm(ph_spec)

\* Flush that pushes the accumulator even when it is empty.
Flush_Always(raw, placeholders) == Append(placeholders, PString(raw))

\* The tail of from_str: the accumulator is pushed when it is not empty.
Flush(raw, placeholders) ==
    IF raw /= <<>> THEN Append(placeholders, PString(raw)) ELSE placeholders

\* A '}' found outside a placeholder: "}}" is an escaped '}', anything else
\* an error.  TRUE when the scan goes on.
IsEscapedClose(parse_slice, left_par) ==
    left_par + 1 <= Len(parse_slice) /\ parse_slice[left_par + 1] = "}"

\* A '{' followed by '{' is an escaped '{'.
IsEscapedOpen(parse_slice, left_par) ==
    left_par + 1 <= Len(parse_slice) /\ parse_slice[left_par + 1] = "{"

\* ClosingAt that closes the body at the last '}' of the text, as a
\* parser matching brackets from the outside would.
ClosingAt_LastBrace(body_slice) ==
    IF \E i \in 1..Len(body_slice) : body_slice[i] = "}"
    THEN CHOOSE i \in 1..Len(body_slice) :
            /\ body_slice[i] = "}"
            /\ \A j \in (i + 1)..Len(body_slice) : body_slice[j] /= "}"
    ELSE 0

\* ClosingAt that takes the next brace, whichever it is, as the closing one.
ClosingAt_AnyBrace(body_slice) == Find(body_slice)

\* The body of a placeholder opened at the head of `body_slice` (the text
\* after the '{'): the position of its closing '}', 0 when the next brace
\* is a '{' or there is none.
ClosingAt(body_slice) ==
    IF Find(body_slice) = 0 THEN 0
    ELSE IF body_slice[Find(body_slice)] = "{" THEN 0
    ELSE Find(body_slice)

\* The `while !parse_slice.is_empty()` loop of from_str, one iteration per
\* unfolding, then the final flush.
RECURSIVE Scan(_, _, _)
Scan(parse_slice, raw, placeholders) ==
    IF parse_slice = <<>> THEN Ok(Flush(raw, placeholders))
    ELSE LET left_par == Find(parse_slice) IN
        IF left_par = 0 THEN Ok(Flush(raw \o parse_slice, placeholders))
        ELSE IF parse_slice[left_par] = "}" THEN
            IF IsEscapedClose(parse_slice, left_par)
            THEN Scan(Tail_from(parse_slice, left_par + 2),
                      raw \o SubSeq(parse_slice, 1, left_par), placeholders)
            ELSE Err("UnmatchedParenthesis", <<>>)
        ELSE IF IsEscapedOpen(parse_slice, left_par)
            THEN Scan(Tail_from(parse_slice, left_par + 2),
                      raw \o SubSeq(parse_slice, 1, left_par), placeholders)
        ELSE LET raw2 == raw \o SubSeq(parse_slice, 1, left_par - 1)
                 body_slice == Tail_from(parse_slice, left_par + 1)
                 flushed == Flush(raw2, placeholders)
                 right_par == ClosingAt(body_slice)
             IN IF right_par = 0 THEN Err("UnmatchedParenthesis", <<>>)
                ELSE LET r == PlaceholderOf(SubSeq(body_slice, 1, right_par - 1)) IN
                     IF r.ok
                     THEN Scan(Tail_from(body_slice, right_par + 1), <<>>,
                               Append(flushed, r.ph))
                     ELSE Err(r.err, r.arg)

\* <MpdFormatter as FromStr>::from_str
FromStr(s) == Scan(s, <<>>, <<>>)

\* -------------------------------------------------- Display (the serializer)
\* str::split_inclusive(['{', '}']): the parts of s, each ending with the
\* brace that closes it (the last part may end without one); no part is empty.
RECURSIVE SplitInclusive(_)
SplitInclusive(s) ==
    IF s = <<>> THEN <<>>
    ELSE IF Find(s) = 0 THEN <<s>>
    ELSE <<SubSeq(s, 1, Find(s))>> \o SplitInclusive(Tail_from(s, Find(s) + 1))

\* ShowPart that writes the part and never doubles its brace.
ShowPart_Undoubled(part) == part

\* One part written, then its last character again when it is a brace.
ShowPart(part) ==
    IF part[Len(part)] \in Braces THEN part \o <<part[Len(part)]>> ELSE part

RECURSIVE ShowParts(_)
ShowParts(parts) ==
    IF parts = <<>> THEN <<>> ELSE ShowPart(parts[1]) \o ShowParts(Tail(parts))

\* The canonical name written for a placeholder that is not a String.
NameOf(kind) ==
    CASE kind = "Album" -> S_album
      [] kind = "AlbumArtist" -> S_albumArtist
      [] kind = "Artist" -> S_artist
      [] kind = "ConsumeIcon" -> S_consumeIcon
      [] kind = "Date" -> S_date
      [] kind = "ElapsedTime" -> S_elapsedTime
      [] kind = "Filename" -> S_filename
      [] kind = "QueueLength" -> S_queueLength
      [] kind = "RandomIcon" -> S_randomIcon
      [] kind = "RepeatIcon" -> S_repeatIcon
      [] kind = "SingleIcon" -> S_singleIcon
      [] kind = "SongPosition" -> S_songPosition
      [] kind = "StateIcon" -> S_stateIcon
      [] kind = "Title" -> S_title
      [] kind = "TotalTime" -> S_totalTime
      [] kind = "Volume" -> S_volume

ShowEntry(ph) ==
    IF ph.kind = "String" THEN ShowParts(SplitInclusive(ph.s))
    ELSE LB \o NameOf(ph.kind) \o RB

\* <MpdFormatter as Display>::fmt, i.e. to_string()
RECURSIVE Display(_)
Display(prog) ==
    IF prog = <<>> THEN <<>> ELSE ShowEntry(prog[1]) \o Display(Tail(prog))

\* MpdFormatter::only_string
OnlyString(str) == <<PString(str)>>

\* ------------------------------------------------------------------- icons
\* StateStatusIcons::get_icon
StateIconOf(state_icons, state) ==
    CASE state = "Stop" -> state_icons.stop
      [] state = "Play" -> state_icons.play
      [] state = "Pause" -> state_icons.pause

NoChar == [some |-> FALSE, v |-> ""]

\* StatusIcons::get_icon: Option<char>
GetIcon(status_icons, state) ==
    IF state THEN Some(status_icons.enabled) ELSE status_icons.disabled

\* " ".repeat(pad)
RECURSIVE Spaces(_)
Spaces(pad) == IF pad = 0 THEN <<>> ELSE <<" ">> \o Spaces(pad - 1)

\* IconsWrite that pads even when there is no icon to write.
IconsWrite_PadAlways(status_icons, state, pad, f) ==
    IF GetIcon(status_icons, state).some
    THEN f \o <<GetIcon(status_icons, state).v>> \o Spaces(pad)
    ELSE f \o Spaces(pad)

\* StatusIcons::write: the buffer f after the call.
IconsWrite(status_icons, state, pad, f) ==
    IF GetIcon(status_icons, state).some
    THEN f \o <<GetIcon(status_icons, state).v>> \o Spaces(pad)
    ELSE f

\* StatusIconsSet::write_bool: the buffer f after the call.
WriteBool(icons, ph, value, f) ==
    CASE ph.kind = "ConsumeIcon" -> IconsWrite(icons.consume, value, ph.pad, f)
      [] ph.kind = "RandomIcon" -> IconsWrite(icons.random, value, ph.pad, f)
      [] ph.kind = "RepeatIcon" -> IconsWrite(icons.repeat, value, ph.pad, f)
      [] ph.kind = "SingleIcon" -> IconsWrite(icons.single, value, ph.pad, f)
      [] OTHER -> f

\* Result<_, IconSetParseError<N>>
IconsOk(v) == [ok |-> TRUE, v |-> v, err |-> ""]
IconsErr(e, dummy) == [ok |-> FALSE, v |-> dummy, err |-> e]

\* StateIconsFromStr that stops reading after the third character.
StateIconsFromStr_Truncating(s) ==
    IF Len(s) < 3 THEN IconsErr("NotEnoughChars", [play |-> "", pause |-> "", stop |-> ""])
    ELSE IconsOk([play |-> s[1], pause |-> s[2], stop |-> s[3]])

\* <StateStatusIcons as FromStr>::from_str (next_or_err! takes play, pause,
\* stop in this order; a missing one fails before the length check).
StateIconsFromStr(s) ==
    IF Len(s) < 3 THEN IconsErr("NotEnoughChars", [play |-> "", pause |-> "", stop |-> ""])
    ELSE IF Len(s) > 3 THEN IconsErr("TooManyChars", [play |-> "", pause |-> "", stop |-> ""])
    ELSE IconsOk([play |-> s[1], pause |-> s[2], stop |-> s[3]])

\* <StatusIcons as FromStr>::from_str
StatusIconsFromStr(s) ==
    IF Len(s) < 1 THEN IconsErr("NotEnoughChars", [enabled |-> "", disabled |-> NoChar])
    ELSE IF Len(s) > 2 THEN IconsErr("TooManyChars", [enabled |-> "", disabled |-> NoChar])
    ELSE IconsOk([enabled |-> s[1],
                  disabled |-> IF Len(s) >= 2 THEN Some(s[2]) ELSE NoChar])

\* StatusIconsSet::new
StatusIconsSetNew(state_icons, consume_icons, random_icons, repeat_icons, single_icons) ==
    [state |-> state_icons, consume |-> consume_icons, random |-> random_icons,
     repeat |-> repeat_icons, single |-> single_icons]

\* ---------------------------------------------------------------- snapshots
NoStr == [some |-> FALSE, v |-> <<>>]
\* std::time::Duration: whole seconds and sub-second nanoseconds (the
\* modelled values are below 2^31, so `as_secs() as u32` keeps them).
Dur(secs, nanos) == [secs |-> secs, nanos |-> nanos]
NoDur == [some |-> FALSE, v |-> Dur(0, 0)]
\* mpd::song::QueuePlace
Place(id, pos) == [id |-> id, pos |-> pos]
NoPlace == [some |-> FALSE, v |-> Place(0, 0)]
\* mpd::Song: the fields Placeholder::get reads.
Song(artist, title, file, tags) ==
    [artist |-> artist, title |-> title, file |-> file, tags |-> tags]
NoSong == [some |-> FALSE, v |-> Song(NoStr, NoStr, <<>>, <<>>)]

T_AlbumArtist == <<"A","l","b","u","m","A","r","t","i","s","t">>
T_Album == <<"A","l","b","u","m">>
T_Date == <<"D","a","t","e">>

\* The HashMap collected from song.tags (a later pair of the same key
\* replaces an earlier one), then tags.remove(key).
TagOf(song, key) ==
    IF ~song.some THEN NoStr
    ELSE LET tags == song.v.tags
             hits == {i \in 1..Len(tags) : tags[i][1] = key}
         IN IF hits = {} THEN NoStr
            ELSE Some(tags[CHOOSE i \in hits : \A j \in hits : j <= i][2])

\* enum PlaceholderValue: a record of one shape for every variant.
Value(t, str, n, dur, place, b, state, fmt, pad) ==
    [t |-> t, str |-> str, n |-> n, dur |-> dur, place |-> place, b |-> b,
     state |-> state, fmt |-> fmt, pad |-> pad]
VString(s) == Value("String", Some(s), 0, NoDur, NoPlace, FALSE, "", <<>>, 0)
VOptionalString(o) == Value("OptionalString", o, 0, NoDur, NoPlace, FALSE, "", <<>>, 0)
VVolume(v) == Value("Volume", NoStr, v, NoDur, NoPlace, FALSE, "", <<>>, 0)
VOptionalDuration(o, fmt) == Value("OptionalDuration", NoStr, 0, o, NoPlace, FALSE, "", fmt, 0)
VOptionalQueuePlace(o) == Value("OptionalQueuePlace", NoStr, 0, NoDur, o, FALSE, "", <<>>, 0)
VLen(l) == Value("Len", NoStr, l, NoDur, NoPlace, FALSE, "", <<>>, 0)
VBool(b) == Value("Bool", NoStr, 0, NoDur, NoPlace, b, "", <<>>, 0)
VState(s, pad) == Value("State", NoStr, 0, NoDur, NoPlace, FALSE, s, <<>>, pad)

\* Placeholder::get
PlaceholderGet(ph, song, status) ==
    CASE ph.kind = "String" -> VString(ph.s)
      [] ph.kind = "Artist" -> VOptionalString(IF song.some THEN song.v.artist ELSE NoStr)
      [] ph.kind = "AlbumArtist" -> VOptionalString(TagOf(song, T_AlbumArtist))
      [] ph.kind = "Album" -> VOptionalString(TagOf(song, T_Album))
      [] ph.kind = "Title" -> VOptionalString(IF song.some THEN song.v.title ELSE NoStr)
      [] ph.kind = "Filename" -> VOptionalString(IF song.some THEN Some(song.v.file) ELSE NoStr)
      [] ph.kind = "Date" -> VOptionalString(TagOf(song, T_Date))
      [] ph.kind = "Volume" -> VVolume(status.volume)
      [] ph.kind = "ElapsedTime" -> VOptionalDuration(status.elapsed, ph.fmt)
      [] ph.kind = "TotalTime" -> VOptionalDuration(status.duration, ph.fmt)
      [] ph.kind = "SongPosition" -> VOptionalQueuePlace(status.song)
      [] ph.kind = "QueueLength" -> VLen(status.queue_len)
      [] ph.kind = "StateIcon" -> VState(status.state, ph.pad)
      [] ph.kind = "ConsumeIcon" -> VBool(status.consume)
      [] ph.kind = "RandomIcon" -> VBool(status.random)
      [] ph.kind = "RepeatIcon" -> VBool(status.repeat)
      [] ph.kind = "SingleIcon" -> VBool(status.single)

\* ---------------------------------------------------------------- rendering
\* Display of an integer.
RECURSIVE DecDigits(_)
DecDigits(n) ==
    IF n < 10 THEN <<Digits[n + 1]>> ELSE DecDigits(n \div 10) \o <<Digits[(n % 10) + 1]>>
Dec(n) == IF n < 0 THEN <<"-">> \o DecDigits(0 - n) ELSE DecDigits(n)
\* A two-digit, zero-padded field of a time of day.
TwoDigits(n) == <<Digits[(n \div 10) + 1], Digits[(n % 10) + 1]>>

SecondsPerDay == 86400
\* NaiveTime::from_num_seconds_from_midnight_opt: no time of day from a
\* day's worth of seconds on.
HasTime(d) == d.secs < SecondsPerDay

\* One item of a DelayedFormat with no date and the time of day of d:
\* a date field, or a time field when there is no time of day, fails.
ItemOk(item, d) ==
    CASE item.t = "Lit" -> TRUE
      [] item.t = "Num" -> HasTime(d)
      [] OTHER -> FALSE
ItemText(item, d) ==
    CASE item.t = "Lit" -> <<item.c>>
      [] item.c = "H" -> TwoDigits(d.secs \div 3600)
      [] item.c = "M" -> TwoDigits((d.secs \div 60) % 60)
      [] item.c = "S" -> TwoDigits(d.secs % 60)
      [] OTHER -> <<>>

DurationOk(d, fmt) == \A i \in 1..Len(fmt) : ItemOk(fmt[i], d)
RECURSIVE DurationText(_, _)
DurationText(d, fmt) ==
    IF fmt = <<>> THEN <<>> ELSE ItemText(fmt[1], d) \o DurationText(d, Tail(fmt))

\* Result of writing into a buffer: ok, and the buffer afterwards.
Written(f) == [ok |-> TRUE, f |-> f]
Failed(f) == [ok |-> FALSE, f |-> f]

\* One arm of the `match ph.get(song, status)` of MpdFormatter::format.
\* DelayedFormat builds its text apart and writes it whole, so a failing
\* pattern writes nothing of its own.
FormatEntry(ph, value, icons, default, f) ==
    CASE value.t = "String" -> Written(f \o value.str.v)
      [] value.t = "OptionalString" ->
            Written(f \o (IF value.str.some THEN value.str.v ELSE default))
      [] value.t = "Volume" -> Written(f \o Dec(value.n))
      [] value.t = "Len" -> Written(f \o Dec(value.n))
      [] value.t = "OptionalDuration" ->
            IF ~value.dur.some THEN Written(f \o default)
            ELSE IF DurationOk(value.dur.v, value.fmt)
                 THEN Written(f \o DurationText(value.dur.v, value.fmt))
                 ELSE Failed(f)
      [] value.t = "OptionalQueuePlace" ->
            Written(f \o (IF value.place.some THEN Dec(value.place.v.id) ELSE default))
      [] value.t = "Bool" -> Written(WriteBool(icons, ph, value.b, f))
      [] value.t = "State" ->
            Written(f \o <<StateIconOf(icons.state, value.state)>> \o Spaces(value.pad))

\* MpdFormatter::format: the entries in order, stopping at the first error
\* with what was written so far left in the buffer.
RECURSIVE Format(_, _, _, _, _, _)
Format(prog, icons, song, status, default, f) ==
    IF prog = <<>> THEN Written(f)
    ELSE LET w == FormatEntry(prog[1], PlaceholderGet(prog[1], song, status),
                              icons, default, f)
         IN IF w.ok THEN Format(Tail(prog), icons, song, status, default, w.f)
            ELSE w

\* ------------------------------------------------------- MpdSource::get
\* `self.$fmt.iter().any(|ph| ph.get(old) != ph.get(new))`
SectionChanged(fmt, old_song, old_status, song, status) ==
    \E i \in 1..Len(fmt) :
        PlaceholderGet(fmt[i], old_song, old_status) /= PlaceholderGet(fmt[i], song, status)

\* ChangeFlags that diffs the prefix program for the suffix flag too.
ChangeFlags_PrefixTwice(src, old_song, old_status, song, status) ==
    {sec \in {"Prefix"} : SectionChanged(src.prefix_format, old_song, old_status, song, status)}
    \cup {sec \in {"Suffix"} : SectionChanged(src.prefix_format, old_song, old_status, song, status)}
    \cup {sec \in {"Running"} : SectionChanged(src.running_format, old_song, old_status, song, status)}

\* The first loop of change!: the flags of the three sections.
ChangeFlags(src, old_song, old_status, song, status) ==
    {sec \in {"Prefix"} : SectionChanged(src.prefix_format, old_song, old_status, song, status)}
    \cup {sec \in {"Suffix"} : SectionChanged(src.suffix_format, old_song, old_status, song, status)}
    \cup {sec \in {"Running"} : SectionChanged(src.running_format, old_song, old_status, song, status)}

\* One step of the second loop of change!: a flagged section is cleared and
\* formatted anew, another one is left alone.
Refresh(flagged, fmt, src, song, status, buf) ==
    IF flagged
    THEN Format(fmt, src.icons, song, status, src.default_placeholder, <<>>)
    ELSE Written(buf)

\* Stored that keeps the old snapshot when no section changed.
Stored_IfChanged(change, old, new) == IF change = {} THEN old ELSE new

\* `(self.current_song, self.current_status) = (song, status)`
Stored(change, old, new) == new

\* What a call leaves behind: how it returned, the flags, the three
\* buffers and the stored snapshot.
Outcome(kind, change, p, s, c, song, status) ==
    [kind |-> kind, change |-> change, prefix |-> p, suffix |-> s, content |-> c,
     song |-> song, status |-> status]

\* GetFailed that has cleared the buffers before it fetches.
GetFailed_Clearing(old_song, old_status, bufs) ==
    Outcome("fetch_err", {}, <<>>, <<>>, <<>>, old_song, old_status)

\* MpdSource::get when currentsong() or status() fails: `?` returns the
\* error before any flag is computed, any buffer touched or the snapshot
\* assigned.
GetFailed(old_song, old_status, bufs) ==
    Outcome("fetch_err", {}, bufs.prefix, bufs.suffix, bufs.content, old_song, old_status)

\* MpdSource::get once both fetches succeeded: prefix, suffix, content in
\* this order, `?` leaving at the first render error, the snapshot stored
\* last.
GetFetched(src, old_song, old_status, bufs, song, status) ==
    LET change == ChangeFlags(src, old_song, old_status, song, status)
        p == Refresh("Prefix" \in change, src.prefix_format, src, song, status, bufs.prefix)
        s == Refresh("Suffix" \in change, src.suffix_format, src, song, status, bufs.suffix)
        c == Refresh("Running" \in change, src.running_format, src, song, status, bufs.content)
    IN IF ~p.ok THEN Outcome("render_err", change, p.f, bufs.suffix, bufs.content,
                             old_song, old_status)
       ELSE IF ~s.ok THEN Outcome("render_err", change, p.f, s.f, bufs.content,
                                  old_song, old_status)
       ELSE IF ~c.ok THEN Outcome("render_err", change, p.f, s.f, c.f,
                                  old_song, old_status)
       ELSE Outcome("ok", change, p.f, s.f, c.f,
                    Stored(change, old_song, song), Stored(change, old_status, status))

\* ------------------------------------------------------------- drawn inputs
\* Template strings: every string of up to MaxLen characters of Chars, with
\* at most one placeholder name put in at any place, the strings of the
\* repository's tests and a few more with arguments.
Chars == {"{", "}", ":", "x"}
Names == {S_album, S_albumArtist, S_artist, S_consumeIcon, S_date, S_elapsedTime,
          S_filename, S_queueLength, S_randomIcon, S_repeatIcon, S_singleIcon,
          S_songPosition, S_stateIcon, S_title, S_totalTime, S_volume}
CharStrings == UNION {[1..k -> Chars] : k \in 0..MaxLen}
WithName(cs, at, nm) == SubSeq(cs, 1, at) \o nm \o Tail_from(cs, at + 1)
DrawnTemplates ==
    CharStrings
    \cup UNION {{WithName(cs, at, nm) : at \in 0..Len(cs), nm \in Names} : cs \in CharStrings}

A_artist == LB \o S_artist \o RB
A_title == LB \o S_title \o RB
TestTemplates == {
    <<"r","a","w","s","t","r">>,
    A_artist \o <<" ","-"," ">> \o A_title,
    <<" ","[">> \o LB \o S_elapsedTime \o RB \o <<"/">> \o LB \o S_totalTime \o RB
        \o <<"]"," ">> \o LB \o S_stateIcon \o RB,
    <<" ","[">> \o LB \o S_elapsedTime \o <<":","%","M"," ","w","i","t","h"," ","%","S">> \o RB
        \o <<"]"," ">> \o LB \o S_stateIcon \o <<":","1">> \o RB,
    LB \o LB \o RB \o RB,
    LB \o LB \o A_artist \o RB \o RB,
    LB \o LB \o A_artist \o A_title \o RB \o RB,
    A_artist \o <<" ">> \o A_title \o RB \o RB,
    RB \o RB \o LB \o LB \o RB \o RB \o RB \o RB,
    LB \o LB \o A_artist \o RB \o RB \o A_title,
    A_artist \o A_title,
    RB \o RB \o LB \o LB \o A_artist \o RB \o RB \o A_title \o RB \o RB,
    LB \o <<"a","r","t","s","t">> \o RB,
    LB \o RB \o S_artist \o RB \o RB,
    LB \o <<"a","r">> \o RB \o <<"t","s","t">> \o RB,
    A_artist \o RB,
    RB \o A_artist,
    RB \o RB \o LB \o LB \o A_artist \o RB \o RB \o LB \o A_title \o RB \o RB,
    LB \o LB \o LB \o A_artist \o RB \o RB,
    LB \o LB \o A_artist \o RB \o RB \o LB,
    LB \o LB \o A_artist \o RB \o RB \o RB,
    LB \o S_elapsedTime \o <<":","%","Y">> \o RB,
    LB \o S_totalTime \o <<":","%","Q">> \o RB,
    LB \o S_volume \o <<":","1">> \o RB \o A_title,
    LB \o S_consumeIcon \o <<":","+","2">> \o RB }
Templates == DrawnTemplates \cup TestTemplates

\* Programs built directly: up to MaxEntries entries, each a literal of up
\* to MaxLitLen characters (the empty one too) or a bare placeholder, and
\* the programs of the repository's tests.
LitChars == {"x", "{", "}"}
LitStrings == UNION {[1..k -> LitChars] : k \in 0..MaxLitLen}
BarePlaceholders ==
    {PBare(k) : k \in PlainKinds} \cup {PTime(k, DefaultPattern) : k \in TimeKinds}
    \cup {PIcon(k, 0) : k \in IconKinds}
Entries == {PString(l) : l \in LitStrings} \cup BarePlaceholders
TestPrograms == {
    <<PBare("Artist"), PString(<<" ","-"," ">>), PBare("Title")>>,
    <<PBare("Artist"), PString(<<"{"," ","-"," ","}">>), PBare("Title")>>,
    <<PString(RB), PBare("Artist"), PString(<<"{"," ","-","{"," ","}">>), PBare("Title")>>,
    OnlyString(<<"r","a","w">>),
    OnlyString(<<>>) }
Programs == UNION {[1..k -> Entries] : k \in 0..MaxEntries} \cup TestPrograms

\* Icon configuration strings.
IconChars == {"a", "b"}
MaxIconLen == 3
IconStrings == UNION {[1..k -> IconChars] : k \in 0..MaxIconLen}
\* The state icon strings reach one character past the three that parse.
MaxStateIconLen == 4
StateIconStrings == UNION {[1..k -> IconChars] : k \in 0..MaxStateIconLen}

\* Snapshots: the songs and statuses a fetch may return.
SongA == Song(Some(<<"a">>), Some(<<"t">>), <<"f">>,
              <<<<T_AlbumArtist, <<"b">>>>, <<T_Album, <<"c">>>>, <<T_Date, <<"1">>>>>>)
\* Another title and no artist.
SongB == [SongA EXCEPT !.artist = NoStr, !.title = Some(<<"u">>)]
\* The Date tag twice: the later one is the one kept.
SongD == [SongA EXCEPT !.tags = <<<<T_Date, <<"1">>>>, <<T_Album, <<"c">>>>, <<T_Date, <<"2">>>>>>]
SongPool == {NoSong, Some(SongA), Some(SongB), Some(SongD)}

BaseStatus ==
    [volume |-> 50, elapsed |-> Some(Dur(5, 0)), duration |-> Some(Dur(3725, 0)),
     song |-> Some(Place(3, 1)), queue_len |-> 2, state |-> "Play",
     consume |-> FALSE, random |-> FALSE, repeat |-> FALSE, single |-> FALSE]
\* The base status and the statuses that differ from it in one field.
StatusPool == {
    BaseStatus,
    [BaseStatus EXCEPT !.volume = -1],
    [BaseStatus EXCEPT !.elapsed = NoDur],
    [BaseStatus EXCEPT !.elapsed = Some(Dur(5, 500000000))],
    [BaseStatus EXCEPT !.elapsed = Some(Dur(SecondsPerDay, 0))],
    [BaseStatus EXCEPT !.duration = NoDur],
    [BaseStatus EXCEPT !.song = NoPlace],
    [BaseStatus EXCEPT !.queue_len = 12],
    [BaseStatus EXCEPT !.state = "Pause"],
    [BaseStatus EXCEPT !.state = "Stop"],
    [BaseStatus EXCEPT !.consume = TRUE],
    [BaseStatus EXCEPT !.random = TRUE],
    [BaseStatus EXCEPT !.repeat = TRUE],
    [BaseStatus EXCEPT !.single = TRUE] }

\* The three programs and the icons of a source.
F_meta == <<PBare("Artist"), PString(<<" ","-"," ">>), PBare("Title")>>
F_tags == <<PBare("AlbumArtist"), PBare("Album"), PBare("Date"), PBare("Filename")>>
F_time == <<PString(<<"[">>), PTime("ElapsedTime", DefaultPattern), PString(<<"/">>),
            PTime("TotalTime", <<Num("H"), Lit("h"), Num("M")>>), PString(<<"]">>)>>
F_year == <<PBare("Volume"), PTime("ElapsedTime", <<DateItem("Y")>>)>>
F_status == <<PBare("Volume"), PBare("SongPosition"), PBare("QueueLength"), PIcon("StateIcon", 1)>>
F_toggles == <<PIcon("ConsumeIcon", 0), PIcon("RandomIcon", 1), PIcon("RepeatIcon", 2),
               PIcon("SingleIcon", 0)>>
F_lit == OnlyString(<<"x">>)
F_empty == <<>>
Formats(prefix_format, suffix_format, running_format) ==
    [prefix_format |-> prefix_format, suffix_format |-> suffix_format,
     running_format |-> running_format]
FormatPool == {
    Formats(F_meta, F_time, F_status),
    Formats(F_time, F_meta, F_toggles),
    Formats(F_toggles, F_status, F_time),
    Formats(F_lit, F_empty, F_tags),
    Formats(F_tags, F_year, F_meta),
    Formats(F_year, F_toggles, F_lit),
    Formats(F_status, F_tags, F_year),
    Formats(F_meta, F_meta, F_meta) }

StateIconsABC == [play |-> "P", pause |-> "U", stop |-> "S"]
Toggle(enabled, disabled) == [enabled |-> enabled, disabled |-> disabled]
IconsPool == {
    StatusIconsSetNew(StateIconsABC, Toggle("c", NoChar), Toggle("z", NoChar),
                      Toggle("r", NoChar), Toggle("s", NoChar)),
    StatusIconsSetNew(StateIconsABC, Toggle("c", Some("C")), Toggle("z", NoChar),
                      Toggle("r", Some("R")), Toggle("s", Some("Z"))) }
DefaultPlaceholder == <<"N","/","A">>

\* MpdSource::new, with its three programs, icons and default text.
MpdSourceNew(fmt, prefix, suffix, icons, default_placeholder) ==
    [running_format |-> fmt, prefix_format |-> prefix, suffix_format |-> suffix,
     icons |-> icons, default_placeholder |-> default_placeholder]

\* ------------------------------------------------------------------- state
VARIABLES
    \* MpdSource and the caller's three buffers
    source,          \* the formats, icons and default text (fixed after new)
    current_song,    \* self.current_song
    current_status,  \* self.current_status
    prefix, suffix, content,   \* the buffers handed to every get
    call,            \* the last call of get: what it was given and returned
    \* a template going through from_str and to_string
    template,        \* the string handed to from_str
    formatter,       \* the MpdFormatter handed to to_string
    parse_result,    \* what from_str returned
    shown,           \* what to_string returned
    fpc,             \* where the template is
    \* icon strings going through from_str and a toggle being rendered
    icon_strs,       \* the configured strings
    icon_sets,       \* what the two from_str returned
    drawn,           \* the rendering of one placeholder: input and output
    ipc

vars == <<source, current_song, current_status, prefix, suffix, content, call,
          template, formatter, parse_result, shown, fpc,
          icon_strs, icon_sets, drawn, ipc>>
srcVars == <<source, current_song, current_status, prefix, suffix, content, call>>
fmtVars == <<template, formatter, parse_result, shown, fpc>>
iconVars == <<icon_strs, icon_sets, drawn, ipc>>

\* The last call of get: how it returned ("ok", "render_err", "fetch_err",
\* "none" before the first call), the flags it computed, the snapshot it
\* fetched (the stored one when the fetch failed) and whether that snapshot
\* differed from the one stored when the call began.
Called(kind, change, song, status, fresh) ==
    [kind |-> kind, change |-> change, song |-> song, status |-> status, fresh |-> fresh]
NoCall == Called("none", {}, NoSong, BaseStatus, FALSE)

\* The rendering of a program against a snapshot into an empty buffer.
Rendering(fmt, src, song, status) ==
    Format(fmt, src.icons, song, status, src.default_placeholder, <<>>)

\* The parts of the state a specification does not use stay as they are here.
SrcIdle ==
    /\ source = MpdSourceNew(F_empty, F_empty, F_empty, CHOOSE i \in IconsPool : TRUE,
                             DefaultPlaceholder)
    /\ current_song = NoSong
    /\ current_status = BaseStatus
    /\ prefix = <<>> /\ suffix = <<>> /\ content = <<>>
    /\ call = NoCall
FmtIdle ==
    /\ template = <<>> /\ formatter = <<>> /\ parse_result = Ok(<<>>)
    /\ shown = <<>> /\ fpc = "idle"
NoDrawn == [ph |-> PString(<<>>), status |-> BaseStatus, before |-> <<>>, after |-> <<>>]
NoIconSets ==
    [state |-> StateIconsFromStr(<<>>), consume |-> StatusIconsFromStr(<<>>),
     random |-> StatusIconsFromStr(<<>>)]
IconIdle ==
    /\ icon_strs = [state |-> <<>>, consume |-> <<>>, random |-> <<>>]
    /\ icon_sets = NoIconSets
    /\ drawn = NoDrawn
    /\ ipc = "idle"

\* ------------------------------------------------- the source and its ticks
\* After MpdSource::new: the snapshot fetched by new is stored, and each
\* buffer holds the rendering of its program against it (an initial
\* snapshot that cannot be rendered gives the caller no buffers to keep).
SrcInit ==
    /\ \E f \in FormatPool, icons \in IconsPool :
          source = MpdSourceNew(f.running_format, f.prefix_format, f.suffix_format,
                                icons, DefaultPlaceholder)
    /\ current_song \in SongPool
    /\ current_status \in StatusPool
    /\ Rendering(source.prefix_format, source, current_song, current_status).ok
    /\ Rendering(source.suffix_format, source, current_song, current_status).ok
    /\ Rendering(source.running_format, source, current_song, current_status).ok
    /\ prefix = Rendering(source.prefix_format, source, current_song, current_status).f
    /\ suffix = Rendering(source.suffix_format, source, current_song, current_status).f
    /\ content = Rendering(source.running_format, source, current_song, current_status).f
    /\ call = Called("none", {}, current_song, current_status, FALSE)

\* MpdSource::get: one tick.  Either fetch may fail, which returns at once;
\* otherwise the sections are diffed and refreshed against what was fetched.
Get ==
    \/ \E failed \in {"currentsong", "status"} :
          \E out \in {GetFailed(current_song, current_status,
                                 [prefix |-> prefix, suffix |-> suffix, content |-> content])} :
             /\ prefix' = out.prefix
             /\ suffix' = out.suffix
             /\ content' = out.content
             /\ current_song' = out.song
             /\ current_status' = out.status
             /\ call' = Called(out.kind, out.change, current_song, current_status, FALSE)
             /\ UNCHANGED source
    \/ \E song \in SongPool, status \in StatusPool :
          \E out \in {GetFetched(source, current_song, current_status,
                                  [prefix |-> prefix, suffix |-> suffix, content |-> content],
                                  song, status)} :
             /\ prefix' = out.prefix
             /\ suffix' = out.suffix
             /\ content' = out.content
             /\ current_song' = out.song
             /\ current_status' = out.status
             /\ call' = Called(out.kind, out.change, song, status,
                                   song /= current_song \/ status /= current_status)
             /\ UNCHANGED source

Tick == Get /\ UNCHANGED fmtVars /\ UNCHANGED iconVars
Init == SrcInit /\ FmtIdle /\ IconIdle
Next == Tick
Spec == Init /\ [][Next]_vars

\* --------------------------------------------- templates: parse and display
\* Either a template string is parsed and the program then displayed, or a
\* program built directly is displayed and the text then parsed.
FmtInit ==
    \/ /\ template \in Templates
       /\ formatter = <<>> /\ parse_result = Ok(<<>>) /\ shown = <<>>
       /\ fpc = "text"
    \/ /\ formatter \in Programs
       /\ template = <<>> /\ parse_result = Ok(<<>>) /\ shown = <<>>
       /\ fpc = "built"

\* s.parse::<MpdFormatter>() of a drawn template
ParseTemplate ==
    /\ fpc = "text"
    /\ \E r \in {FromStr(template)} :
          /\ parse_result' = r
          /\ formatter' = r.prog
    /\ fpc' = "parsed"
    /\ UNCHANGED <<template, shown>>
    /\ UNCHANGED srcVars /\ UNCHANGED iconVars

\* to_string() of the program just parsed
ShowParsed ==
    /\ fpc = "parsed" /\ parse_result.ok
    /\ shown' = Display(formatter)
    /\ fpc' = "displayed"
    /\ UNCHANGED <<template, formatter, parse_result>>
    /\ UNCHANGED srcVars /\ UNCHANGED iconVars

\* to_string() of a program built directly
ShowBuilt ==
    /\ fpc = "built"
    /\ shown' = Display(formatter)
    /\ fpc' = "shown"
    /\ UNCHANGED <<template, formatter, parse_result>>
    /\ UNCHANGED srcVars /\ UNCHANGED iconVars

\* parse of the text just displayed
ParseShown ==
    /\ fpc = "shown"
    /\ template' = shown
    /\ parse_result' = FromStr(shown)
    /\ fpc' = "reparsed"
    /\ UNCHANGED <<formatter, shown>>
    /\ UNCHANGED srcVars /\ UNCHANGED iconVars

FmtNext == ParseTemplate \/ ShowParsed \/ ShowBuilt \/ ParseShown
FmtSpecInit == SrcIdle /\ FmtInit /\ IconIdle
FmtSpec == FmtSpecInit /\ [][FmtNext]_vars

\* ------------------------------------------------ icons: parse and render
IconInit ==
    /\ icon_strs \in [state : StateIconStrings, consume : IconStrings, random : IconStrings]
    /\ icon_sets = NoIconSets
    /\ drawn = NoDrawn
    /\ ipc = "strings"

\* The icon strings of the configuration are parsed.
IconsFromStr ==
    /\ ipc = "strings"
    /\ icon_sets' = [state |-> StateIconsFromStr(icon_strs.state),
                     consume |-> StatusIconsFromStr(icon_strs.consume),
                     random |-> StatusIconsFromStr(icon_strs.random)]
    /\ ipc' = "parsed"
    /\ UNCHANGED <<icon_strs, drawn>>
    /\ UNCHANGED srcVars /\ UNCHANGED fmtVars

\* The icon set built from the parsed strings: consume and single share
\* one string, random and repeat the other.
BuiltIcons ==
    StatusIconsSetNew(icon_sets.state.v, icon_sets.consume.v, icon_sets.random.v,
                      icon_sets.random.v, icon_sets.consume.v)

\* One icon placeholder is formatted into a buffer that may hold text.
FormatIcon ==
    /\ ipc = "parsed"
    /\ icon_sets.state.ok /\ icon_sets.consume.ok /\ icon_sets.random.ok
    /\ \E kind \in IconKinds, pad \in 0..MaxPad, status \in StatusPool,
          before \in {<<>>, <<"x">>} :
          drawn' = [ph |-> PIcon(kind, pad), status |-> status, before |-> before,
                    after |-> Format(<<PIcon(kind, pad)>>, BuiltIcons, NoSong, status,
                                     DefaultPlaceholder, before).f]
    /\ ipc' = "formatted"
    /\ UNCHANGED <<icon_strs, icon_sets>>
    /\ UNCHANGED srcVars /\ UNCHANGED fmtVars

IconNext == IconsFromStr \/ FormatIcon
IconSpecInit == SrcIdle /\ FmtIdle /\ IconInit
IconSpec == IconSpecInit /\ [][IconNext]_vars

\* ================================================================== claims
\* ----------------------------------------------------- templates (FmtSpec)
NoBrace(s) == \A i \in 1..Len(s) : s[i] \notin Braces
\* The name of a placeholder spec: the text before its first ':', or all
\* of it.
SpecName(spec) ==
    IF ColonAt(spec) = 0 THEN spec ELSE SubSeq(spec, 1, ColonAt(spec) - 1)
HasArgument(spec) == ColonAt(spec) /= 0
Parsed == fpc \in {"parsed", "displayed"}

\* s is made only of plain characters, "{{", "}}" and "{name}" with a
\* known name.
RECURSIVE BareTemplate(_)
BareTemplate(s) ==
    IF s = <<>> THEN TRUE
    ELSE IF s[1] \notin Braces THEN BareTemplate(Tail(s))
    ELSE IF Len(s) >= 2 /\ s[2] = s[1] THEN BareTemplate(Tail_from(s, 3))
    ELSE /\ s[1] = "{"
         /\ \E nm \in Names :
               /\ Len(s) >= Len(nm) + 2
               /\ SubSeq(s, 2, Len(nm) + 1) = nm
               /\ s[Len(nm) + 2] = "}"
               /\ BareTemplate(Tail_from(s, Len(nm) + 3))

Normalized(prog) ==
    /\ \A i \in 1..Len(prog) : prog[i].kind = "String" => prog[i].s /= <<>>
    /\ \A i \in 1..(Len(prog) - 1) :
          ~(prog[i].kind = "String" /\ prog[i + 1].kind = "String")

SpecAt(open, close) ==
    /\ open < close
    /\ template[open] = "{" /\ template[close] = "}"
    /\ NoBrace(SubSeq(template, open + 1, close - 1))
    /\ FromStr(SubSeq(template, 1, open - 1)).ok
SpecText(open, close) == SubSeq(template, open + 1, close - 1)

\* C7: a placeholder spec whose name is not in the name table fails the
\* parse with UnknownPlaceholder(name), with or without an argument.
C7_UnknownName ==
    Parsed =>
        \A open \in 1..Len(template), close \in 1..Len(template) :
            (SpecAt(open, close) /\ SpecName(SpecText(open, close)) \notin Names) =>
                parse_result = Err("UnknownPlaceholder", SpecName(SpecText(open, close)))

\* C8: a known name that takes no argument, given one, fails the parse
\* with RedundantFormat(name).
NoArgumentNames ==
    {S_artist, S_albumArtist, S_album, S_title, S_filename, S_date, S_volume,
     S_songPosition, S_queueLength}
C8_RedundantFormat ==
    Parsed =>
        \A open \in 1..Len(template), close \in 1..Len(template) :
            (/\ SpecAt(open, close)
             /\ HasArgument(SpecText(open, close))
             /\ SpecName(SpecText(open, close)) \in NoArgumentNames) =>
                parse_result = Err("RedundantFormat", SpecName(SpecText(open, close)))

\* The scan, having parsed template[1..at-1] without error, meets at `at`
\* (a) a '}' that no '}' follows, (b) a '{' opening a body whose next brace
\* is a '{', (c) a '{' opening a body that never closes.
StrayClose(at) ==
    /\ template[at] = "}"
    /\ at = Len(template) \/ template[at + 1] /= "}"
OpensBody(at) ==
    /\ template[at] = "{"
    /\ at = Len(template) \/ template[at + 1] /= "{"
NestedOpen(at) ==
    /\ OpensBody(at)
    /\ \E k \in (at + 1)..Len(template) :
          template[k] = "{" /\ NoBrace(SubSeq(template, at + 1, k - 1))
Unterminated(at) ==
    /\ OpensBody(at)
    /\ NoBrace(Tail_from(template, at + 1))
BraceError(at) ==
    /\ FromStr(SubSeq(template, 1, at - 1)).ok
    /\ StrayClose(at) \/ NestedOpen(at) \/ Unterminated(at)

\* C9: a stray '}', a '{' nested in a placeholder body and an unterminated
\* placeholder each fail the parse with UnmatchedParenthesis, and the
\* error carries no program.
C9_BraceErrors ==
    Parsed =>
        \A at \in 1..Len(template) :
            BraceError(at) =>
                /\ parse_result = Err("UnmatchedParenthesis", <<>>)
                /\ parse_result.prog = <<>> /\ formatter = <<>>

\* A brace error met after a placeholder was parsed.
C9_Witness ==
    /\ fpc = "parsed" /\ ~parse_result.ok
    /\ \E at \in 1..Len(template) :
          /\ BraceError(at)
          /\ NestedOpen(at)
          /\ FromStr(SubSeq(template, 1, at - 1)).prog /= <<>>

\* ------------------------------------------------- the source's ticks (Spec)
Sections == {"Prefix", "Suffix", "Running"}
FormatOf(sec) ==
    CASE sec = "Prefix" -> source.prefix_format
      [] sec = "Suffix" -> source.suffix_format
      [] sec = "Running" -> source.running_format
bufs == [Prefix |-> prefix, Suffix |-> suffix, Running |-> content]
Returned == call.kind \in {"ok", "render_err"}

\* C1: whenever a call returns successfully, each buffer is the rendering
\* of its program against the snapshot that call fetched.
C1_NeverStale ==
    call.kind = "ok" =>
        \A sec \in Sections :
            /\ Rendering(FormatOf(sec), source, call.song, call.status).ok
            /\ bufs[sec] = Rendering(FormatOf(sec), source, call.song, call.status).f

\* The snapshot fields a placeholder reads.
Reads(ph) ==
    CASE ph.kind = "String" -> {}
      [] ph.kind = "Artist" -> {"artist"}
      [] ph.kind = "Title" -> {"title"}
      [] ph.kind = "Filename" -> {"file"}
      [] ph.kind \in {"AlbumArtist", "Album", "Date"} -> {"tags"}
      [] ph.kind = "Volume" -> {"volume"}
      [] ph.kind = "ElapsedTime" -> {"elapsed"}
      [] ph.kind = "TotalTime" -> {"duration"}
      [] ph.kind = "SongPosition" -> {"song"}
      [] ph.kind = "QueueLength" -> {"queue_len"}
      [] ph.kind = "StateIcon" -> {"state"}
      [] ph.kind = "ConsumeIcon" -> {"consume"}
      [] ph.kind = "RandomIcon" -> {"random"}
      [] ph.kind = "RepeatIcon" -> {"repeat"}
      [] ph.kind = "SingleIcon" -> {"single"}
FieldOf(f, song, status) ==
    CASE f = "artist" -> IF song.some THEN <<song.v.artist>> ELSE <<>>
      [] f = "title" -> IF song.some THEN <<song.v.title>> ELSE <<>>
      [] f = "file" -> IF song.some THEN <<song.v.file>> ELSE <<>>
      [] f = "tags" -> IF song.some THEN <<song.v.tags>> ELSE <<>>
      [] OTHER -> <<status[f]>>
\* Two snapshots agree on every field the program reads.
AgreeOn(fmt, song1, status1, song2, status2) ==
    \A i \in 1..Len(fmt) : \A f \in Reads(fmt[i]) :
        FieldOf(f, song1, status1) = FieldOf(f, song2, status2)
\* Some placeholder of the program resolves to another value.
ResolvesDifferently(fmt, song1, status1, song2, status2) ==
    \E i \in 1..Len(fmt) :
        PlaceholderGet(fmt[i], song1, status1) /= PlaceholderGet(fmt[i], song2, status2)

\* One call of get, seen from the stored snapshot it started with.
C2_Step ==
    call'.kind \in {"ok", "render_err"} =>
        \A sec \in Sections :
            /\ call'.kind = "ok" =>
                  (sec \in call'.change <=>
                      ResolvesDifferently(FormatOf(sec), current_song, current_status,
                                          call'.song, call'.status))
            /\ AgreeOn(FormatOf(sec), current_song, current_status,
                       call'.song, call'.status) =>
                  (sec \notin call'.change /\ bufs'[sec] = bufs[sec])
\* C2: a tick reports a section changed exactly when a placeholder of its
\* program resolves differently against the stored and the fetched
\* snapshot; a section whose program reads only fields the two snapshots
\* agree on is not flagged and keeps its buffer, whatever the others do.
C2_ChangeDetection == [][C2_Step]_vars

\* A tick on a new snapshot that flagged one section and not the others.
C2_Witness == call.kind = "ok" /\ call.fresh /\ Cardinality(call.change) = 1

\* C3: a call that returns a render error leaves the three buffers as they
\* were before it.
C3_FailsAtomically == [][call'.kind = "render_err" => bufs' = bufs]_vars

\* C4 as claimed: once the snapshot was fetched, the stored snapshot is
\* the fetched one when the call ends, however it ends.
C4_StoredAlways ==
    Returned => (current_song = call.song /\ current_status = call.status)

\* C4 amended: when the call returns successfully, the stored snapshot is
\* the fetched one, whatever was flagged.
C4_StoredOnSuccess ==
    call.kind = "ok" => (current_song = call.song /\ current_status = call.status)

\* A successful tick on a new snapshot that flagged nothing.
C4_Witness ==
    /\ call.kind = "ok" /\ call.fresh /\ call.change = {}
    /\ current_song = call.song /\ current_status = call.status

\* ------------------------------------------------------- icons (IconSpec)
\* The configured string of a toggle placeholder, and the toggle's value in
\* the status formatted.
ToggleString(kind) ==
    IF kind \in {"ConsumeIcon", "SingleIcon"} THEN icon_strs.consume ELSE icon_strs.random
ToggleValue(kind, status) ==
    CASE kind = "ConsumeIcon" -> status.consume
      [] kind = "RandomIcon" -> status.random
      [] kind = "RepeatIcon" -> status.repeat
      [] kind = "SingleIcon" -> status.single
\* `after` is `before`, then the character c, then n spaces.
IsCharThenSpaces(after, before, c, n) ==
    /\ Len(after) = Len(before) + 1 + n
    /\ SubSeq(after, 1, Len(before)) = before
    /\ after[Len(before) + 1] = c
    /\ \A i \in (Len(before) + 2)..Len(after) : after[i] = " "

\* C10: a false toggle whose icons hold no disabled character adds nothing
\* to the output; a toggle with a character for its state adds that
\* character and then padCount spaces.
C10_ToggleRendering ==
    (ipc = "formatted" /\ drawn.ph.kind \in ToggleKinds) =>
        LET str == ToggleString(drawn.ph.kind)
            on == ToggleValue(drawn.ph.kind, drawn.status)
        IN IF on THEN IsCharThenSpaces(drawn.after, drawn.before, str[1], drawn.ph.pad)
           ELSE IF Len(str) = 2
                THEN IsCharThenSpaces(drawn.after, drawn.before, str[2], drawn.ph.pad)
                ELSE drawn.after = drawn.before

\* A false toggle without a disabled character, with padding asked for,
\* formatted into a buffer that holds text.
C10_Witness ==
    /\ ipc = "formatted" /\ drawn.ph.kind \in ToggleKinds
    /\ ~ToggleValue(drawn.ph.kind, drawn.status)
    /\ Len(ToggleString(drawn.ph.kind)) = 1
    /\ drawn.ph.pad > 0 /\ drawn.before /= <<>>
    /\ drawn.after = drawn.before

\* What a toggle icon string of 1 or 2 characters stands for.
ToggleIconsOf(s) ==
    [enabled |-> s[1], disabled |-> IF Len(s) = 2 THEN Some(s[2]) ELSE NoChar]
IconsParsed == ipc \in {"parsed", "formatted"}

\* C11: a state icon string parses exactly when it has 3 characters, taken
\* in order as play, pause, stop; a toggle icon string parses exactly when
\* it has 1 or 2 characters (enabled, optional disabled); a shorter string
\* fails with NotEnoughChars and a longer one with TooManyChars.
C11_IconParsing ==
    IconsParsed =>
        /\ icon_sets.state.ok <=> Len(icon_strs.state) = 3
        /\ icon_sets.state.ok =>
              icon_sets.state.v = [play |-> icon_strs.state[1],
                                   pause |-> icon_strs.state[2],
                                   stop |-> icon_strs.state[3]]
        /\ Len(icon_strs.state) < 3 =>
              (~icon_sets.state.ok /\ icon_sets.state.err = "NotEnoughChars")
        /\ Len(icon_strs.state) > 3 =>
              (~icon_sets.state.ok /\ icon_sets.state.err = "TooManyChars")
        /\ \A t \in {"consume", "random"} :
              /\ icon_sets[t].ok <=> Len(icon_strs[t]) \in {1, 2}
              /\ icon_sets[t].ok => icon_sets[t].v = ToggleIconsOf(icon_strs[t])
              /\ Len(icon_strs[t]) < 1 =>
                    (~icon_sets[t].ok /\ icon_sets[t].err = "NotEnoughChars")
              /\ Len(icon_strs[t]) > 2 =>
                    (~icon_sets[t].ok /\ icon_sets[t].err = "TooManyChars")

\* A state string of four characters refused as too long, next to an empty
\* toggle string refused as too short and a toggle string of two different
\* characters that parsed.
C11_Witness ==
    /\ ipc = "parsed"
    /\ Len(icon_strs.state) = 4 /\ icon_sets.state.err = "TooManyChars"
    /\ icon_strs.consume = <<>> /\ icon_sets.consume.err = "NotEnoughChars"
    /\ icon_strs.random = <<"a", "b">>
    /\ icon_sets.random.ok /\ icon_sets.random.v.disabled = Some("b")

SpecError(open) ==
    \E close \in 1..Len(template) :
        SpecAt(open, close) /\ ~PlaceholderOf(SpecText(open, close)).ok
T_ar_tst == LB \o <<"a", "r">> \o RB \o <<"t", "s", "t">> \o RB
T_empty_artist == LB \o RB \o S_artist \o RB \o RB

\* C13: the parse returns the error of the first failing step of the
\* left-to-right scan.  A failed parse has a failing step; a refused spec
\* at the first failing step decides the error whatever follows it; a spec
\* without ':' that is not a known name gives UnknownPlaceholder with the
\* text between the braces ("{ar}tst}" gives "ar", "{}artist}}" gives "").
C13_ScanOrder ==
    Parsed =>
        /\ ~parse_result.ok =>
              \E at \in 1..Len(template) : BraceError(at) \/ SpecError(at)
        /\ \A open \in 1..Len(template), close \in 1..Len(template) :
              SpecAt(open, close) =>
                 /\ ~PlaceholderOf(SpecText(open, close)).ok =>
                       /\ ~parse_result.ok
                       /\ parse_result.err = PlaceholderOf(SpecText(open, close)).err
                       /\ parse_result.arg = PlaceholderOf(SpecText(open, close)).arg
                 /\ (/\ ~HasArgument(SpecText(open, close))
                     /\ SpecText(open, close) \notin Names) =>
                       parse_result = Err("UnknownPlaceholder", SpecText(open, close))
        /\ template = T_ar_tst => parse_result = Err("UnknownPlaceholder", <<"a", "r">>)
        /\ template = T_empty_artist => parse_result = Err("UnknownPlaceholder", <<>>)

\* An unknown name met after text that parsed, with a stray '}' after it.
C13_Witness ==
    /\ fpc = "parsed" /\ parse_result.err = "UnknownPlaceholder"
    /\ \E open \in 2..Len(template), close \in 1..Len(template) :
          /\ SpecAt(open, close)
          /\ ~HasArgument(SpecText(open, close))
          /\ SpecText(open, close) \notin Names
          /\ parse_result.arg = SpecText(open, close)
          /\ close < Len(template)
          /\ ~FromStr(Tail_from(template, close + 1)).ok

\* ------------------------------------------------ ticks again (Spec)
\* A call whose fetch failed, seen from the state it started in; and the
\* successful call that follows one, whose record of the failed call
\* holds the snapshot that was stored when it failed.
C14_FailedStep ==
    call'.kind = "fetch_err" =>
        /\ bufs' = bufs
        /\ call'.change = {}
        /\ current_song' = current_song /\ current_status' = current_status
        /\ source' = source
C14_NextStep ==
    (call.kind = "fetch_err" /\ call'.kind = "ok") =>
        /\ current_song = call.song /\ current_status = call.status
        /\ call'.change =
              {sec \in Sections :
                  ResolvesDifferently(FormatOf(sec), call.song, call.status,
                                      call'.song, call'.status)}

\* C14: a call of get whose fetch of the song or of the status fails
\* returns the error with none of the three buffers modified, no section
\* rendered and the stored snapshot unchanged, so that the next successful
\* call diffs against the last snapshot that was stored.
C14_FetchFailure == [][C14_FailedStep /\ C14_NextStep]_vars

\* A fetch failed after a snapshot other than the first was stored, with
\* text in the buffers, all three still the rendering of that snapshot.
C14_Witness ==
    /\ call.kind = "fetch_err"
    /\ prefix /= <<>> /\ content /= <<>>
    /\ current_song /= NoSong
    /\ \A sec \in Sections :
          bufs[sec] = Rendering(FormatOf(sec), source, current_song, current_status).f

====
